---- MODULE Spec2Model ----
(***************************************************************************)
(* A model of ezcb.h, the event/callback dispatcher of laumbourassa/ezcb:  *)
(* the hash table of registrations (malloc build and EZCB_NO_MALLOC        *)
(* build), ezcb_register / ezcb_register_once / ezcb_unregister /          *)
(* ezcb_trigger / ezcb_init / ezcb_deinit, and the deferred event ring of  *)
(* EZCB_ENABLE_ISR (ezcb_trigger_isr / ezcb_dispatch).                      *)
(*                                                                         *)
(* A bucket chain (the nodes linked through ->next from ezcb_table[i]) is  *)
(* a sequence of node addresses, head first; "cur" of the code's walks is  *)
(* a position in that sequence.  A node's fields live in "nodes".          *)
(***************************************************************************)
EXTENDS Integers, Sequences, FiniteSets, TLC

(***************************************************************************)
(* Configuration.  The three EZCB_MAX_* macros and EZCB_EVENT_QUEUE_SIZE   *)
(* are #ifndef defaults of the header; the model is the build              *)
(*   -DEZCB_MAX_BUCKETS=2 -DEZCB_MAX_NODES=3 -DEZCB_MAX_TRIGGER_LENGTH=2   *)
(*   -DEZCB_EVENT_QUEUE_SIZE=3                                             *)
(* The malloc build's first table size, 16, is fixed by ezcb_init.         *)
(***************************************************************************)
EZCB_MAX_BUCKETS == 2

EZCB_MAX_NODES == 3

EZCB_MAX_TRIGGER_LENGTH == 2

EZCB_EVENT_QUEUE_SIZE == 3

InitialBuckets == 16

\* Bounds of the model (not of the program)
\* malloc build: Register is not called with MaxLive registrations live
MaxLive == 2

\* malloc build, SpecUnreg: as MaxLive
MaxLiveU == 1

\* malloc build, SpecGrow: as MaxLive, past the first growth
MaxGrowLive == 13

\* SpecGrow: registrations live at a time of the second priority, and of
\* the second name
MaxOther == 1

\* SpecIsr: events ezcb_trigger_isr accepts in a behaviour
MaxEnq == 4

\* SpecIsr: as MaxLive
MaxLiveI == 1

\* SpecCount: ezcb_register_once is called with at most this many
\* registrations live
MaxOnceAt == 1

\* SpecLock: the threads calling into the registry
NumThreads == 2

\* SpecLock: as MaxLive
MaxLiveL == 1

\* SpecGrow: the callback that returns stop is at most this one (0: none)
MaxStopG == 1

TwoPow16 == 65536

(***************************************************************************)
(* Values.  A trigger name is the sequence of its bytes (without the       *)
(* terminator); NullStr is the null char*, told apart from every name by   *)
(* a zero byte no name holds.  Function, context and data pointers are     *)
(* opaque; "NULL" is the null pointer.                                     *)
(***************************************************************************)
NullStr == <<0>>

NullTable == <<>>

NullPtr == "NULL"

EZCB_CONTINUE == "EZCB_CONTINUE"

EZCB_STOP == "EZCB_STOP"

name_a == <<97>>

name_q == <<113>>

name_aa == <<97, 97>>

name_aaa == <<97, 97, 97>>

\* "a" and "q" share a bucket of 16 (4) and of 2 (0), and part in 32 (4, 20);
\* "aa" is in another bucket (5 of 16, 1 of 2) and is as long as
\* EZCB_MAX_TRIGGER_LENGTH; "aaa" is longer.
Names == {name_a, name_q, name_aa, name_aaa}

Priorities == {1, 2}

Fns == {"f1", "f2"}

Ctxs == {"c1", "c2"}

Datas == {"d1"}

(***************************************************************************)
(* ezcb_hash: h = 5381; h = ((h << 5) + h) ^ (uint8_t)c, in uint32_t.      *)
(* TLC's integers are 32-bit signed, so a uint32_t is held as its two      *)
(* 16-bit halves <<hi, lo>>, value hi * 2^16 + lo.                         *)
(***************************************************************************)
RECURSIVE BitXor(_, _)
BitXor(x, y) ==
    IF x = 0 THEN y
    ELSE IF y = 0 THEN x
    ELSE (((x % 2) + (y % 2)) % 2) + (2 * BitXor(x \div 2, y \div 2))

\* ((h << 5) + h) modulo 2^32
Times33(h) ==
    LET lo == h[2] * 33
    IN <<((h[1] * 33) + (lo \div TwoPow16)) % TwoPow16, lo % TwoPow16>>

\* h ^ c for a byte c: only the low half changes
XorByte(h, c) == <<h[1], BitXor(h[2], c % 256)>>

RECURSIVE HashFrom(_, _, _)
HashFrom(h, s, i) ==
    IF i > Len(s) THEN h
    ELSE HashFrom(XorByte(Times33(h), s[i]), s, i + 1)

ezcb_hash(s) == HashFrom(<<0, 5381>>, s, 1)

\* h % buckets
HashMod(h, buckets) ==
    (((h[1] % buckets) * (TwoPow16 % buckets)) + (h[2] % buckets)) % buckets

\* hash(trigger) % buckets, as the 1-based position in the table sequence
BucketOf(trigger, buckets) == HashMod(ezcb_hash(trigger), buckets) + 1

(***************************************************************************)
(* State                                                                   *)
(***************************************************************************)
VARIABLES
    noMalloc,        \* the build: TRUE with EZCB_NO_MALLOC
    ezcb_table,      \* NullTable, or the sequence of bucket chains
    ezcb_buckets,
    ezcb_count,
    nodes,           \* the linked nodes: address -> fields
    ezcb_free_list,  \* EZCB_NO_MALLOC: free slots, head first
    ub,              \* the program has executed undefined behaviour
    heap,            \* history, malloc build: the blocks calloc, malloc and strdup
                     \* returned since the table was last allocated and that
                     \* have not been passed to free: how many of each
    regOrder,        \* history: live nodes in the order they were registered
    last,            \* history: the last public call, its arguments and result
    calls,           \* history: the callbacks the last ezcb_trigger invoked
    ezcb_evt_head,   \* EZCB_ENABLE_ISR: the ring's producer index
    ezcb_evt_tail,   \* the ring's consumer index
    ezcb_evt_queue,  \* the ring's slots, 0 .. EZCB_EVENT_QUEUE_SIZE - 1
    isr,             \* ezcb_trigger_isr: its place, arguments, "next", and the
                     \* value its last call returned
    drain,           \* ezcb_dispatch in progress: its place and its copy "evt"
    enqueued,        \* history: the events ezcb_trigger_isr returned 0 for
    dispatched,      \* history: the ezcb_trigger calls ezcb_dispatch made
    ezcb_mtx,        \* EZCB_THREAD_SAFE: the mutex: created or not, and its owner
    th,              \* the threads: each one's call in progress and place in it
    lockUb           \* a mutex function was called where C11 leaves it undefined

regVars == <<noMalloc, ezcb_table, ezcb_buckets, ezcb_count, nodes,
             ezcb_free_list, ub, heap, regOrder, last, calls>>

ringVars == <<ezcb_evt_head, ezcb_evt_tail, ezcb_evt_queue>>

isrVars == <<ezcb_evt_head, ezcb_evt_tail, ezcb_evt_queue, isr, drain, enqueued,
             dispatched>>

lockVars == <<ezcb_mtx, th, lockUb>>

\* The registry state as one value, threaded through the handlers
Reg ==
    [table |-> ezcb_table, buckets |-> ezcb_buckets, count |-> ezcb_count,
     nodes |-> nodes, free |-> ezcb_free_list, ub |-> ub, heap |-> heap,
     order |-> regOrder]

SetReg(s) ==
    /\ ezcb_table' = s.table
    /\ ezcb_buckets' = s.buckets
    /\ ezcb_count' = s.count
    /\ nodes' = s.nodes
    /\ ezcb_free_list' = s.free
    /\ ub' = s.ub
    /\ heap' = s.heap
    /\ regOrder' = s.order

\* no heap block is held
NoBlocks == [table |-> 0, nodes |-> 0, strs |-> 0]

RegInit ==
    [table |-> NullTable, buckets |-> 0, count |-> 0, nodes |-> <<>>,
     free |-> <<>>, ub |-> FALSE, heap |-> NoBlocks, order |-> <<>>]

\* Sequence helpers
RemoveAt(seq, i) == SubSeq(seq, 1, i - 1) \o SubSeq(seq, i + 1, Len(seq))

InsertAt(seq, i, x) == SubSeq(seq, 1, i - 1) \o <<x>> \o SubSeq(seq, i, Len(seq))

Without(seq, x) == SelectSeq(seq, LAMBDA y : y # x)

RECURSIVE Flatten(_, _)
Flatten(table, i) ==
    IF i > Len(table) THEN <<>> ELSE table[i] \o Flatten(table, i + 1)

DropNode(ns, n) == [a \in DOMAIN ns \ {n} |-> ns[a]]

(***************************************************************************)
(* Allocation                                                              *)
(***************************************************************************)
\* malloc hands out an address that is not in use: the lowest one
FreshAddr(ns) == CHOOSE a \in 1..(Cardinality(DOMAIN ns) + 1) : a \notin DOMAIN ns

\* (mutant) the slot handed out stays at the head of the free list
ezcb_node_alloc_NoPop(s, nm, nodeOk) ==
    IF nm
    THEN IF s.free = <<>>
         THEN [node |-> 0, free |-> s.free]
         ELSE [node |-> Head(s.free), free |-> s.free]
    ELSE [node |-> IF nodeOk THEN FreshAddr(s.nodes) ELSE 0, free |-> s.free]

\* ezcb_node_alloc: [node |-> the address or 0 (NULL), free |-> the free list]
ezcb_node_alloc(s, nm, nodeOk) ==
    IF nm
    THEN IF s.free = <<>>
         THEN [node |-> 0, free |-> s.free]
         ELSE [node |-> Head(s.free), free |-> Tail(s.free)]
    ELSE [node |-> IF nodeOk THEN FreshAddr(s.nodes) ELSE 0, free |-> s.free]

\* ezcb_node_free, and the same release written out in ezcb_trigger:
\* "free(n->trigger); free(n);" in the malloc build (free(NULL) does nothing)
ezcb_node_free(s, nm, n) ==
    [s EXCEPT !.nodes = DropNode(s.nodes, n),
              !.free = IF nm THEN <<n>> \o s.free ELSE s.free,
              !.heap = IF nm THEN @
                       ELSE [@ EXCEPT !.nodes = @ - 1,
                                      !.strs = IF s.nodes[n].trigger = NullStr THEN @
                                               ELSE @ - 1],
              !.order = Without(s.order, n)]

(***************************************************************************)
(* ezcb_resize: every node, bucket by bucket and head first, is pushed on  *)
(* the head of its new bucket.  A node whose trigger is NULL makes         *)
(* ezcb_hash read through a null pointer.                                  *)
(***************************************************************************)
\* (mutant) the nodes are rehashed for the size the table had
NewBucket_OldSize(trigger, new_size) == BucketOf(trigger, new_size \div 2)

\* "idx = ezcb_hash(n->trigger) % new_size"
NewBucket(trigger, new_size) == BucketOf(trigger, new_size)

RECURSIVE Rehash(_, _, _, _, _)
Rehash(ns, flat, i, new_size, new_table) ==
    IF i > Len(flat) THEN new_table
    ELSE LET n == flat[i]
             idx == NewBucket(ns[n].trigger, new_size)
         IN Rehash(ns, flat, i + 1, new_size,
                   [new_table EXCEPT ![idx] = <<n>> \o new_table[idx]])

ezcb_resize(s, new_size, tableOk) ==
    IF ~tableOk THEN [st |-> s, ret |-> -1]
    ELSE IF \E n \in DOMAIN s.nodes : s.nodes[n].trigger = NullStr
    THEN [st |-> [s EXCEPT !.ub = TRUE], ret |-> 0]
    ELSE [st |-> [s EXCEPT !.table = Rehash(s.nodes, Flatten(s.table, 1), 1, new_size,
                                           [i \in 1..new_size |-> <<>>]),
                           !.buckets = new_size],
          ret |-> 0]

(***************************************************************************)
(* ezcb_init                                                               *)
(***************************************************************************)
\* (mutant) the loop stops one slot early
InitialFreeList_Short == [i \in 1..(EZCB_MAX_NODES - 1) |-> EZCB_MAX_NODES - i]

\* the free list after the loop that pushes ezcb_nodes[0 .. MAX_NODES-1]
InitialFreeList == [i \in 1..EZCB_MAX_NODES |-> EZCB_MAX_NODES + 1 - i]

\* ezcb_init past its first line
ezcb_init_body(s, nm, tableOk) ==
    IF nm
    THEN [s EXCEPT !.buckets = EZCB_MAX_BUCKETS,
                   !.table = [i \in 1..EZCB_MAX_BUCKETS |-> <<>>],
                   !.free = InitialFreeList,
                   !.count = 0]
    ELSE [s EXCEPT !.buckets = InitialBuckets,
                   !.table = IF tableOk THEN [i \in 1..InitialBuckets |-> <<>>]
                             ELSE NullTable,
                   !.heap = [table |-> IF tableOk THEN 1 ELSE 0, nodes |-> 0,
                             strs |-> 0],
                   !.count = 0]

\* (mutant) "if (ezcb_table) return;" left out
ezcb_init_NoGuard(s, nm, tableOk) == ezcb_init_body(s, nm, tableOk)

ezcb_init(s, nm, tableOk) ==
    IF s.table # NullTable THEN s ELSE ezcb_init_body(s, nm, tableOk)

(***************************************************************************)
(* ezcb_register_internal                                                  *)
(***************************************************************************)
\* (mutant) a name as long as the buffer is let through
NameTooLong_OffByOne(len) == len > EZCB_MAX_TRIGGER_LENGTH

\* "if (trigger_length >= EZCB_MAX_TRIGGER_LENGTH)"
NameTooLong(len) == len >= EZCB_MAX_TRIGGER_LENGTH

\* the walk "while (*cur)": the position the new node is linked at
RECURSIVE InsertPos(_, _, _, _, _)
InsertPos(ns, chain, i, trigger, priority) ==
    IF i > Len(chain) THEN i
    ELSE IF ns[chain[i]].trigger = trigger /\ ns[chain[i]].priority < priority THEN i
    ELSE InsertPos(ns, chain, i + 1, trigger, priority)

\* strcmp on a node whose trigger is NULL, at or before position "upto"
WalkReadsNull(ns, chain, upto) ==
    \E i \in 1..Len(chain) : i <= upto /\ ns[chain[i]].trigger = NullStr

\* mem: which of the call's heap allocations succeed
\*   [table: calloc of ezcb_init, grow: calloc of ezcb_resize,
\*    node: malloc of the node, str: strdup of the name]
MemOk == [table |-> TRUE, grow |-> TRUE, node |-> TRUE, str |-> TRUE]

MemAny == [table : BOOLEAN, grow : BOOLEAN, node : BOOLEAN, str : BOOLEAN]

LinkNode(s, nm, node, free, trigger, priority, fn, ctx, once, strOk) ==
    LET idx == BucketOf(trigger, s.buckets)
        chain == s.table[idx]
        pos == InsertPos(s.nodes, chain, 1, trigger, priority)
        rec == [trigger |-> IF nm THEN SubSeq(trigger, 1, Len(trigger))
                            ELSE IF strOk THEN trigger ELSE NullStr,
                priority |-> priority, once |-> once, fn |-> fn, ctx |-> ctx]
        held == IF nm THEN s.heap
                ELSE [s.heap EXCEPT !.nodes = @ + 1,
                                    !.strs = IF strOk THEN @ + 1 ELSE @]
    IN IF s.table = NullTable \/ WalkReadsNull(s.nodes, chain, pos)
       THEN [st |-> [s EXCEPT !.ub = TRUE, !.free = free, !.heap = held], ret |-> 0]
       ELSE [st |-> [s EXCEPT !.table[idx] = InsertAt(chain, pos, node),
                              !.nodes = (node :> rec) @@ s.nodes,
                              !.free = free,
                              !.heap = held,
                              !.count = s.count + 1,
                              !.order = Append(s.order, node)],
             ret |-> 0]

\* (mutant) the table grows only once the load factor is past 0.75
LoadReached_Past(count, buckets) == count * 4 > buckets * 3

\* "if (ezcb_count * 4 >= ezcb_buckets * 3)"
LoadReached(count, buckets) == count * 4 >= buckets * 3

ezcb_register_internal(s0, nm, trigger, priority, fn, ctx, once, mem) ==
    LET s1 == IF s0.table = NullTable THEN ezcb_init(s0, nm, mem.table) ELSE s0
    IN IF nm /\ NameTooLong(Len(trigger))
       THEN [st |-> s1, ret |-> -1]
       ELSE LET g == IF ~nm /\ LoadReached(s1.count, s1.buckets)
                     THEN ezcb_resize(s1, s1.buckets * 2, mem.grow)
                     ELSE [st |-> s1, ret |-> 0]
                a == ezcb_node_alloc(g.st, nm, mem.node)
            IN IF g.ret # 0 THEN [st |-> s1, ret |-> -1]
               ELSE IF g.st.ub THEN g
               ELSE IF a.node = 0 THEN [st |-> g.st, ret |-> -1]
               ELSE LinkNode(g.st, nm, a.node, a.free, trigger, priority, fn, ctx,
                             once, mem.str)

\* the heap allocations a call of ezcb_register_internal performs and that fail
RegisterFailed(s0, nm, trigger, mem) ==
    LET s1 == IF s0.table = NullTable THEN ezcb_init(s0, nm, mem.table) ELSE s0
        grows == ~nm /\ LoadReached(s1.count, s1.buckets)
        g == IF grows THEN ezcb_resize(s1, s1.buckets * 2, mem.grow)
             ELSE [st |-> s1, ret |-> 0]
        toNode == ~nm /\ g.ret = 0 /\ ~g.st.ub
    IN  (IF ~nm /\ s0.table = NullTable /\ ~mem.table THEN {"table"} ELSE {})
        \cup (IF grows /\ ~mem.grow THEN {"grow"} ELSE {})
        \cup (IF toNode /\ ~mem.node THEN {"node"} ELSE {})
        \cup (IF toNode /\ mem.node /\ ~mem.str THEN {"str"} ELSE {})

\* mem names a failure only for an allocation the call performs
MemRelevant(s0, nm, trigger, mem) ==
    LET f == RegisterFailed(s0, nm, trigger, mem)
    IN /\ mem.table = ("table" \notin f)
       /\ mem.grow = ("grow" \notin f)
       /\ mem.node = ("node" \notin f)
       /\ mem.str = ("str" \notin f)

(***************************************************************************)
(* ezcb_unregister                                                         *)
(***************************************************************************)
UnregMatches(node, byName, trigger, fn, ctx) ==
    /\ byName => node.trigger = trigger
    /\ fn = NullPtr \/ node.fn = fn
    /\ ctx = NullPtr \/ node.ctx = ctx

\* (mutant) the walk steps on after a removal, past the node that moved up
AfterRemoval_Skip(pos) == pos + 1

\* "continue" after "*cur = n->next": cur stays, and now holds the next node
AfterRemoval(pos) == pos

\* one "while (*cur)" walk over bucket idx, from position pos
RECURSIVE UnregWalk(_, _, _, _, _, _, _, _, _)
UnregWalk(s, nm, idx, pos, byName, trigger, fn, ctx, removed) ==
    IF pos > Len(s.table[idx]) THEN [st |-> s, removed |-> removed]
    ELSE LET n == s.table[idx][pos]
         IN IF byName /\ s.nodes[n].trigger = NullStr
            THEN [st |-> [s EXCEPT !.ub = TRUE], removed |-> removed]
            ELSE IF UnregMatches(s.nodes[n], byName, trigger, fn, ctx)
            THEN UnregWalk(ezcb_node_free([s EXCEPT !.table[idx] = RemoveAt(@, pos),
                                                    !.count = s.count - 1], nm, n),
                           nm, idx, AfterRemoval(pos), byName, trigger, fn, ctx,
                           removed + 1)
            ELSE UnregWalk(s, nm, idx, pos + 1, byName, trigger, fn, ctx, removed)

\* "for (i = 0; i < ezcb_buckets; i++)" over the walks
RECURSIVE UnregAll(_, _, _, _, _, _)
UnregAll(s, nm, i, fn, ctx, removed) ==
    IF i > s.buckets THEN [st |-> s, removed |-> removed]
    ELSE LET w == UnregWalk(s, nm, i, 1, FALSE, NullStr, fn, ctx, removed)
         IN UnregAll(w.st, nm, i + 1, fn, ctx, w.removed)

ezcb_unregister(s, nm, trigger, fn, ctx) ==
    IF s.table = NullTable THEN [st |-> s, ret |-> 0]
    ELSE LET w == IF trigger # NullStr
                  THEN UnregWalk(s, nm, BucketOf(trigger, s.buckets), 1, TRUE,
                                 trigger, fn, ctx, 0)
                  ELSE UnregAll(s, nm, 1, fn, ctx, 0)
         IN [st |-> w.st, ret |-> w.removed]

(***************************************************************************)
(* ezcb_trigger                                                            *)
(***************************************************************************)
\* what the k-th callback invoked by one ezcb_trigger returns: the caller's
\* callbacks decide; stopAt is the invocation that returns EZCB_STOP (0: none)
CallbackResult(k, stopAt) == IF k = stopAt THEN EZCB_STOP ELSE EZCB_CONTINUE

CallRec(n, node, data, r) ==
    [node |-> n, trigger |-> node.trigger, priority |-> node.priority,
     once |-> node.once, fn |-> node.fn, ctx |-> node.ctx, data |-> data, r |-> r]

\* (mutant) the stop test missing from the once branch
TriggerStops_NotInOnce(r, once) == r = EZCB_STOP /\ ~once

\* (mutant) the stop test before the once test: a once node that stops is kept
TriggerRemoves_UnlessStop(node, r) == node.once /\ r = EZCB_CONTINUE

\* "if (r == EZCB_STOP) break;", in the once branch and after it
TriggerStops(r, once) == r = EZCB_STOP

\* "if (n->once)": the node is unlinked and released after its callback
TriggerRemoves(node, r) == node.once

RECURSIVE TriggerWalk(_, _, _, _, _, _, _, _)
TriggerWalk(s, nm, idx, pos, trigger, data, stopAt, log) ==
    IF pos > Len(s.table[idx]) THEN [st |-> s, log |-> log]
    ELSE LET n == s.table[idx][pos]
             node == s.nodes[n]
             r == CallbackResult(Len(log) + 1, stopAt)
             log1 == Append(log, CallRec(n, node, data, r))
         IN IF node.trigger = NullStr
            THEN [st |-> [s EXCEPT !.ub = TRUE], log |-> log]
            ELSE IF node.trigger # trigger
            THEN TriggerWalk(s, nm, idx, pos + 1, trigger, data, stopAt, log)
            ELSE IF TriggerRemoves(node, r)
            THEN LET s1 == ezcb_node_free([s EXCEPT !.table[idx] = RemoveAt(@, pos),
                                                    !.count = s.count - 1], nm, n)
                 IN IF TriggerStops(r, TRUE) THEN [st |-> s1, log |-> log1]
                    ELSE TriggerWalk(s1, nm, idx, pos, trigger, data, stopAt, log1)
            ELSE IF TriggerStops(r, FALSE) THEN [st |-> s, log |-> log1]
            ELSE TriggerWalk(s, nm, idx, pos + 1, trigger, data, stopAt, log1)

ezcb_trigger(s, nm, trigger, data, stopAt) ==
    IF s.table = NullTable THEN [st |-> s, log |-> <<>>]
    ELSE TriggerWalk(s, nm, BucketOf(trigger, s.buckets), 1, trigger, data, stopAt, <<>>)

(***************************************************************************)
(* ezcb_deinit.  The malloc build passes each node ("free(n)") and the     *)
(* table to free, and no node's trigger.                                   *)
(***************************************************************************)
RECURSIVE PushAll(_, _, _)
PushAll(flat, i, free) ==
    IF i > Len(flat) THEN free ELSE PushAll(flat, i + 1, <<flat[i]>> \o free)

\* (mutant) the live count is not reset
ezcb_deinit_KeepCount(s, nm) ==
    IF s.table = NullTable THEN s
    ELSE [s EXCEPT !.free = IF nm THEN PushAll(Flatten(s.table, 1), 1, s.free) ELSE s.free,
                   !.nodes = <<>>,
                   !.order = <<>>,
                   !.heap = IF nm THEN @ ELSE [@ EXCEPT !.table = 0, !.nodes = 0],
                   !.table = NullTable,
                   !.buckets = 0]

ezcb_deinit(s, nm) ==
    IF s.table = NullTable THEN s
    ELSE [s EXCEPT !.free = IF nm THEN PushAll(Flatten(s.table, 1), 1, s.free) ELSE s.free,
                   !.nodes = <<>>,
                   !.order = <<>>,
                   !.heap = IF nm THEN @ ELSE [@ EXCEPT !.table = 0, !.nodes = 0],
                   !.table = NullTable,
                   !.buckets = 0,
                   !.count = 0]

(***************************************************************************)
(* The public calls as actions.  Each is one whole call.  "last" keeps of  *)
(* the call what its caller sees: which call, the trigger name passed, the *)
(* value returned (returned = FALSE: the call ran into undefined behaviour *)
(* and returned nothing), and for a register the allocations that failed.  *)
(***************************************************************************)
LastRec(op, trigger, ret, returned, failed) ==
    [op |-> op, trigger |-> trigger, ret |-> ret, returned |-> returned,
     failed |-> failed]

NoCall == LastRec("none", NullStr, 0, TRUE, {})

NoEvt == [trigger |-> NullStr, data |-> NullPtr]

\* the ring is static storage: zeroed
InitIsr ==
    /\ ezcb_evt_head = 0
    /\ ezcb_evt_tail = 0
    /\ ezcb_evt_queue = [i \in 0..(EZCB_EVENT_QUEUE_SIZE - 1) |-> NoEvt]
    /\ isr = [pc |-> "idle", evt |-> NoEvt, next |-> 0, ret |-> 0]
    /\ drain = [pc |-> "idle", evt |-> NoEvt]
    /\ enqueued = <<>>
    /\ dispatched = <<>>

\* the mutex is static storage on which mtx_init has not been called; no
\* thread is in a call
NoThread == 0

Threads == 1..NumThreads

Idle ==
    [pc |-> "idle", op |-> "none", back |-> "idle", trigger |-> NullStr, node |-> 0,
     held |-> 0]

InitLock ==
    /\ ezcb_mtx = [made |-> FALSE, owner |-> NoThread]
    /\ th = [t \in Threads |-> Idle]
    /\ lockUb = FALSE

InitReg(nm) ==
    /\ noMalloc = nm
    /\ ezcb_table = NullTable
    /\ ezcb_buckets = 0
    /\ ezcb_count = 0
    /\ nodes = <<>>
    /\ ezcb_free_list = <<>>
    /\ ub = FALSE
    /\ heap = NoBlocks
    /\ regOrder = <<>>
    /\ last = NoCall
    /\ calls = <<>>
    /\ InitIsr
    /\ InitLock

\* ezcb_init()
DoInit ==
    /\ ~ub
    /\ SetReg(ezcb_init(Reg, noMalloc, TRUE))
    /\ last' = LastRec("init", NullStr, 0, TRUE, {})
    /\ calls' = <<>>
    /\ UNCHANGED <<noMalloc, isrVars, lockVars>>

\* ezcb_deinit()
DoDeinit ==
    /\ ~ub
    /\ SetReg(ezcb_deinit(Reg, noMalloc))
    /\ last' = LastRec("deinit", NullStr, 0, TRUE, {})
    /\ calls' = <<>>
    /\ ezcb_evt_head' = (IF ezcb_table = NullTable THEN ezcb_evt_head ELSE 0)
    /\ ezcb_evt_tail' = (IF ezcb_table = NullTable THEN ezcb_evt_tail ELSE 0)
    /\ UNCHANGED <<noMalloc, ezcb_evt_queue, isr, drain, enqueued, dispatched, lockVars>>

\* ezcb_register(...) (once = FALSE) and ezcb_register_once(...) (once = TRUE)
DoRegister(trigger, priority, fn, ctx, once, mem, maxLive) ==
    /\ ~ub
    /\ noMalloc \/ ezcb_count < maxLive
    /\ MemRelevant(Reg, noMalloc, trigger, mem)
    /\ LET r == ezcb_register_internal(Reg, noMalloc, trigger, priority, fn, ctx,
                                       once, mem)
       IN /\ SetReg(r.st)
          /\ last' = LastRec("register", trigger, r.ret, ~r.st.ub,
                             RegisterFailed(Reg, noMalloc, trigger, mem))
    /\ calls' = <<>>
    /\ UNCHANGED <<noMalloc, isrVars, lockVars>>

\* ezcb_unregister(trigger, fn, ctx); NullStr and NullPtr are the wildcards
DoUnregister(trigger, fn, ctx) ==
    /\ ~ub
    /\ LET r == ezcb_unregister(Reg, noMalloc, trigger, fn, ctx)
       IN /\ SetReg(r.st)
          /\ last' = LastRec("unregister", NullStr, r.ret, ~r.st.ub, {})
    /\ calls' = <<>>
    /\ UNCHANGED <<noMalloc, isrVars, lockVars>>

\* the positions of trigger's bucket that hold a node carrying its name
Matching(trigger) ==
    IF ezcb_table = NullTable THEN {}
    ELSE {i \in 1..Len(ezcb_table[BucketOf(trigger, ezcb_buckets)]) :
            nodes[ezcb_table[BucketOf(trigger, ezcb_buckets)][i]].trigger = trigger}

\* ezcb_trigger(trigger, data), the stopAt-th callback it invokes returning
\* EZCB_STOP and the others EZCB_CONTINUE
DoTriggerAt(trigger, data, stopAt) ==
    /\ ~ub
    /\ stopAt \in 0..Cardinality(Matching(trigger))
    /\ LET r == ezcb_trigger(Reg, noMalloc, trigger, data, stopAt)
       IN /\ SetReg(r.st)
          /\ calls' = r.log
          /\ last' = LastRec("trigger", trigger, 0, ~r.st.ub, {})
    /\ UNCHANGED <<noMalloc, isrVars, lockVars>>

DoTrigger(trigger, data) ==
    \E stopAt \in 0..Cardinality(Matching(trigger)) : DoTriggerAt(trigger, data, stopAt)

vars == <<regVars, isrVars, lockVars>>

(***************************************************************************)
(* Spec: both builds, every allocation succeeds.  Two names that share a   *)
(* bucket, two priorities, once and not, one callback and context.         *)
(***************************************************************************)
Init == \E nm \in BOOLEAN : InitReg(nm)

Register ==
    \E trigger \in {name_a, name_q}, priority \in Priorities, once \in BOOLEAN :
        DoRegister(trigger, priority, "f1", "c1", once, MemOk, MaxLive)

Unregister ==
    \E trigger \in {name_a, name_q, NullStr} : DoUnregister(trigger, NullPtr, NullPtr)

Trigger == \E trigger \in {name_a, name_q} : DoTrigger(trigger, "d1")

Next == DoInit \/ DoDeinit \/ Register \/ Unregister \/ Trigger

Spec == Init /\ [][Next]_vars

(***************************************************************************)
(* SpecUnreg: both builds; three names ("a" and "q" share a bucket, the    *)
(* empty name is in another), two callbacks and two contexts, and every    *)
(* combination of matcher and wildcard.                                    *)
(***************************************************************************)
name_empty == <<>>

\* the callback and context pairs registered: enough for a pair to differ
\* from another in the callback only, and in the context only
Callbacks == {<<"f1", "c1">>, <<"f1", "c2">>, <<"f2", "c1">>}

RegisterU ==
    \E trigger \in {name_a, name_q, name_empty}, cb \in Callbacks :
        DoRegister(trigger, 1, cb[1], cb[2], FALSE, MemOk, MaxLiveU)

UnregisterU ==
    \E trigger \in {name_a, name_q, name_empty, NullStr}, fn \in Fns \cup {NullPtr},
       ctx \in Ctxs \cup {NullPtr} :
        DoUnregister(trigger, fn, ctx)

NextUnreg == DoInit \/ DoDeinit \/ RegisterU \/ UnregisterU

SpecUnreg == Init /\ [][NextUnreg]_vars

(***************************************************************************)
(* SpecBounded: the EZCB_NO_MALLOC build, with names shorter than, as long *)
(* as and longer than EZCB_MAX_TRIGGER_LENGTH.                             *)
(***************************************************************************)
InitBounded == InitReg(TRUE)

RegisterB ==
    \E trigger \in Names, priority \in Priorities, once \in BOOLEAN :
        DoRegister(trigger, priority, "f1", "c1", once, MemOk, MaxLive)

NextBounded == DoInit \/ DoDeinit \/ RegisterB \/ Unregister \/ Trigger

SpecBounded == InitBounded /\ [][NextBounded]_vars

(***************************************************************************)
(* SpecGrow: the malloc build up to and past the first growth of the table *)
(* (12 registrations in 16 buckets), each heap allocation free to fail.    *)
(* Name "a" at priority 1, and up to MaxOther registrations each of "a"   *)
(* at priority 2 and of "q", which shares a's bucket of 16 and not its     *)
(* bucket of 32.                                                           *)
(***************************************************************************)
InitGrow == InitReg(FALSE)

LiveOf(trigger, priority) ==
    Cardinality({n \in DOMAIN nodes :
                    nodes[n].trigger = trigger /\ nodes[n].priority = priority})

RegisterG ==
    \E mem \in MemAny :
        \/ DoRegister(name_a, 1, "f1", "c1", FALSE, mem, MaxGrowLive)
        \/ /\ LiveOf(name_a, 2) < MaxOther
           /\ DoRegister(name_a, 2, "f1", "c1", FALSE, mem, MaxGrowLive)
        \/ /\ LiveOf(name_q, 1) < MaxOther
           /\ DoRegister(name_q, 1, "f1", "c1", FALSE, mem, MaxGrowLive)

UnregisterG == DoUnregister(NullStr, NullPtr, NullPtr)

TriggerG ==
    \E trigger \in {name_a, name_q}, stopAt \in 0..MaxStopG :
        DoTriggerAt(trigger, "d1", stopAt)

NextGrow == RegisterG \/ UnregisterG \/ TriggerG

SpecGrow == InitGrow /\ [][NextGrow]_vars

(***************************************************************************)
(* SpecLoad: both builds, the registrations of SpecGrow; the calloc of     *)
(* ezcb_resize and the malloc of the node are free to fail, the calloc of  *)
(* ezcb_init and strdup succeed.                                           *)
(***************************************************************************)
MemLoad == {mem \in MemAny : mem.table /\ mem.str}

RegisterL ==
    \E mem \in MemLoad :
        \/ DoRegister(name_a, 1, "f1", "c1", FALSE, mem, MaxGrowLive)
        \/ /\ LiveOf(name_a, 2) < MaxOther
           /\ DoRegister(name_a, 2, "f1", "c1", FALSE, mem, MaxGrowLive)
        \/ /\ LiveOf(name_q, 1) < MaxOther
           /\ DoRegister(name_q, 1, "f1", "c1", FALSE, mem, MaxGrowLive)

NextLoad == RegisterL \/ UnregisterG \/ TriggerG

SpecLoad == Init /\ [][NextLoad]_vars

(***************************************************************************)
(* SpecCount: both builds, with ezcb_init and ezcb_deinit; registrations   *)
(* of "a" at priority 1 by ezcb_register and, while at most MaxOnceAt      *)
(* registrations are live, of "q" at priority 2 by ezcb_register_once; the *)
(* calloc of ezcb_resize and the malloc of the node free to fail.          *)
(***************************************************************************)
RegisterC ==
    \E mem \in MemLoad :
        \/ DoRegister(name_a, 1, "f1", "c1", FALSE, mem, MaxGrowLive)
        \/ /\ ezcb_count <= MaxOnceAt
           /\ DoRegister(name_q, 2, "f1", "c1", TRUE, mem, MaxGrowLive)

NextCount == DoInit \/ DoDeinit \/ RegisterC \/ UnregisterG \/ TriggerG

SpecCount == Init /\ [][NextCount]_vars

(***************************************************************************)
(* EZCB_ENABLE_ISR: ezcb_trigger_isr (the producer) and ezcb_dispatch (the *)
(* consumer), one step per read or write of an index or of a slot field.   *)
(***************************************************************************)
\* (mutant) the full test left out
IsrFull_Never(next, tail) == FALSE

\* (mutant) the ring counted full one slot early
IsrFull_Early(next, tail) ==
    next = tail \/ ((next + 1) % EZCB_EVENT_QUEUE_SIZE) = tail

\* "if (next == ezcb_evt_tail) return -1;"
IsrFull(next, tail) == next = tail

\* (uint8_t) ((index + 1) % EZCB_EVENT_QUEUE_SIZE)
NextIndex(i) == ((i + 1) % EZCB_EVENT_QUEUE_SIZE) % 256

\* the call, and "next = (ezcb_evt_head + 1) % EZCB_EVENT_QUEUE_SIZE"
IsrCall(trigger, data) ==
    /\ isr.pc = "idle"
    /\ Len(enqueued) < MaxEnq
    /\ isr' = [pc |-> "check", evt |-> [trigger |-> trigger, data |-> data],
               next |-> NextIndex(ezcb_evt_head), ret |-> 0]
    /\ UNCHANGED <<regVars, lockVars, ringVars, drain, enqueued, dispatched>>

\* "if (next == ezcb_evt_tail) return -1;"
IsrCheck ==
    /\ isr.pc = "check"
    /\ isr' = IF IsrFull(isr.next, ezcb_evt_tail)
              THEN [isr EXCEPT !.pc = "idle", !.ret = -1]
              ELSE [isr EXCEPT !.pc = "w_trigger"]
    /\ UNCHANGED <<regVars, lockVars, ringVars, drain, enqueued, dispatched>>

\* "ezcb_evt_queue[ezcb_evt_head].trigger = trigger"
IsrWriteTrigger ==
    /\ isr.pc = "w_trigger"
    /\ ezcb_evt_queue' = [ezcb_evt_queue EXCEPT ![ezcb_evt_head].trigger = isr.evt.trigger]
    /\ isr' = [isr EXCEPT !.pc = "w_data"]
    /\ UNCHANGED <<regVars, lockVars, ezcb_evt_head, ezcb_evt_tail, drain, enqueued, dispatched>>

\* "ezcb_evt_queue[ezcb_evt_head].data = data"
IsrWriteData ==
    /\ isr.pc = "w_data"
    /\ ezcb_evt_queue' = [ezcb_evt_queue EXCEPT ![ezcb_evt_head].data = isr.evt.data]
    /\ isr' = [isr EXCEPT !.pc = "publish"]
    /\ UNCHANGED <<regVars, lockVars, ezcb_evt_head, ezcb_evt_tail, drain, enqueued, dispatched>>

\* "ezcb_evt_head = next; return 0;"
IsrPublish ==
    /\ isr.pc = "publish"
    /\ ezcb_evt_head' = isr.next
    /\ enqueued' = Append(enqueued, isr.evt)
    /\ isr' = [isr EXCEPT !.pc = "idle", !.ret = 0]
    /\ UNCHANGED <<regVars, lockVars, ezcb_evt_tail, ezcb_evt_queue, drain, dispatched>>

\* ezcb_dispatch() is called
DrainCall ==
    /\ drain.pc = "idle"
    /\ drain' = [drain EXCEPT !.pc = "test"]
    /\ UNCHANGED <<regVars, lockVars, ringVars, isr, enqueued, dispatched>>

\* (mutant) the loop stops with one event left in the ring
DrainMore_LeavesOne(tail, head) == NextIndex(tail) # head

\* the loop test of ezcb_dispatch
DrainMore(tail, head) == tail # head

\* "while (ezcb_evt_tail != ezcb_evt_head)"
DrainTest ==
    /\ drain.pc = "test"
    /\ drain' = [drain EXCEPT !.pc = IF DrainMore(ezcb_evt_tail, ezcb_evt_head)
                                     THEN "r_trigger" ELSE "idle"]
    /\ UNCHANGED <<regVars, lockVars, ringVars, isr, enqueued, dispatched>>

\* "evt = ezcb_evt_queue[ezcb_evt_tail]", the trigger field
DrainReadTrigger ==
    /\ drain.pc = "r_trigger"
    /\ drain' = [drain EXCEPT !.pc = "r_data",
                              !.evt.trigger = ezcb_evt_queue[ezcb_evt_tail].trigger]
    /\ UNCHANGED <<regVars, lockVars, ringVars, isr, enqueued, dispatched>>

\* "evt = ezcb_evt_queue[ezcb_evt_tail]", the data field
DrainReadData ==
    /\ drain.pc = "r_data"
    /\ drain' = [drain EXCEPT !.pc = "advance",
                              !.evt.data = ezcb_evt_queue[ezcb_evt_tail].data]
    /\ UNCHANGED <<regVars, lockVars, ringVars, isr, enqueued, dispatched>>

\* "ezcb_evt_tail = (ezcb_evt_tail + 1) % EZCB_EVENT_QUEUE_SIZE"
DrainAdvance ==
    /\ drain.pc = "advance"
    /\ ezcb_evt_tail' = NextIndex(ezcb_evt_tail)
    /\ drain' = [drain EXCEPT !.pc = "trigger"]
    /\ UNCHANGED <<regVars, lockVars, ezcb_evt_head, ezcb_evt_queue, isr, enqueued, dispatched>>

\* "ezcb_trigger(evt.trigger, evt.data)"; a null name is read through by
\* ezcb_hash
DrainTrigger ==
    /\ drain.pc = "trigger"
    /\ ~ub
    /\ \E stopAt \in 0..Cardinality(Matching(drain.evt.trigger)) :
         LET r == ezcb_trigger(Reg, noMalloc, drain.evt.trigger, drain.evt.data, stopAt)
         IN /\ SetReg(IF drain.evt.trigger = NullStr THEN [Reg EXCEPT !.ub = TRUE]
                      ELSE r.st)
            /\ calls' = r.log
            /\ last' = LastRec("trigger", drain.evt.trigger, 0,
                               drain.evt.trigger # NullStr /\ ~r.st.ub, {})
    /\ dispatched' = Append(dispatched, drain.evt)
    /\ drain' = [drain EXCEPT !.pc = "test"]
    /\ UNCHANGED <<noMalloc, ringVars, isr, enqueued, lockVars>>

(***************************************************************************)
(* SpecIsr: one producer and one consumer, interleaved step by step, over  *)
(* a registry that holds at most one registration of "a"; no ezcb_deinit.  *)
(***************************************************************************)
InitIsrSpec == InitReg(FALSE)

RegisterI ==
    \E once \in BOOLEAN :
        DoRegister(name_a, 1, "f1", "c1", once, MemOk, MaxLiveI)

Enqueue == \E trigger \in {name_a, name_q} : IsrCall(trigger, "d1")

Producer == Enqueue \/ IsrCheck \/ IsrWriteTrigger \/ IsrWriteData \/ IsrPublish

Consumer ==
    \/ DrainCall \/ DrainTest \/ DrainReadTrigger \/ DrainReadData \/ DrainAdvance
    \/ DrainTrigger

NextIsr == RegisterI \/ Producer \/ Consumer

SpecIsr == InitIsrSpec /\ [][NextIsr]_vars

\* the steps of a call of ezcb_dispatch that is under way
DrainRun ==
    DrainTest \/ DrainReadTrigger \/ DrainReadData \/ DrainAdvance \/ DrainTrigger

\* SpecIsrFair: SpecIsr in which the context that called ezcb_dispatch keeps
\* running (and every callback returns: DrainTrigger is one step).  Nothing
\* makes the producer run, or ezcb_dispatch be called.
SpecIsrFair == SpecIsr /\ WF_vars(DrainRun)

(***************************************************************************)
(* EZCB_THREAD_SAFE: the calls of several threads, interleaved.  A call is *)
(* cut at every ezcb_lock and ezcb_unlock, at MUTEX_INIT and MUTEX_DESTROY, *)
(* and at the tests of ezcb_table made before the lock is taken; the code   *)
(* between two cuts is one step.  mtx_plain is not recursive: locking a     *)
(* mutex the thread owns, unlocking one it does not own, and using one that *)
(* mtx_init has not created (or creating it twice, or destroying it locked) *)
(* are undefined, and set lockUb; two threads in registry code at once, one *)
(* of them at a write, are a data race, and set ub.  The histories last    *)
(* and calls belong to the single-threaded calls above and are left alone  *)
(* here.                                                                   *)
(***************************************************************************)
FirstPc(op) ==
    CASE op = "init" -> "init_check"
      [] op = "deinit" -> "dei_check"
      [] op = "register" -> "reg_lock"
      [] op = "unregister" -> "unr_lock"
      [] op = "trigger" -> "trg_lock"

\* the places that are a call of ezcb_lock
LockPcs == {"reg_lock", "init_lock", "free_lock", "unr_lock", "trg_lock", "dei_lock"}

AfterLock(pc) ==
    CASE pc = "reg_lock" -> "reg_check"
      [] pc = "init_lock" -> "init_free"
      [] pc = "free_lock" -> "free_push"
      [] pc = "unr_lock" -> "unr_main"
      [] pc = "trg_lock" -> "trg_main"
      [] pc = "dei_lock" -> "dei_main"

\* the places that are a call of ezcb_unlock
UnlockPcs ==
    {"init_unlock", "alloc_unlock", "reg_unlock", "free_unlock", "unr_unlock",
     "trg_unlock", "dei_unlock"}

AfterUnlock(pc) ==
    CASE pc = "init_unlock" -> "init_count"
      [] pc = "alloc_unlock" -> "reg_unlock"
      [] pc = "reg_unlock" -> "idle"
      [] pc = "free_unlock" -> "unr_cont"
      [] pc = "unr_unlock" -> "idle"
      [] pc = "trg_unlock" -> "idle"
      [] pc = "dei_unlock" -> "dei_destroy"

\* the places whose step reads or writes the table, the chains, the live
\* count or the free list
RegistryPcs ==
    {"init_check", "init_tab", "init_free", "init_count", "reg_check", "reg_main",
     "unr_main", "free_push", "unr_cont", "trg_main", "dei_check", "dei_main"}

\* the threads that are in code that reads or writes registry state
InRegistry == {t \in Threads : th[t].pc \in RegistryPcs}

\* the places whose step only reads ezcb_table
ReadOnlyPcs == {"init_check", "reg_check", "dei_check"}

\* the places a thread reaches having tested ezcb_table without the mutex and
\* not yet locked or returned (ezcb_init l.404, ezcb_deinit l.437)
TestedPcs == {"init_mi", "dei_lock"}

\* the places whose step assigns ezcb_table
AssignPcs == {"init_tab", "dei_main"}

\* two accesses with no order between them, one of them a write, a data
\* race: two threads in registry code at once, one at a write; a thread that
\* tested ezcb_table without the mutex while another assigns it; a thread
\* that assigned ezcb_table without the mutex (ezcb_init l.409-411) and has
\* not locked yet while another is in registry code
Racing ==
    \E t, u \in Threads :
        /\ t # u
        /\ \/ t \in InRegistry /\ u \in InRegistry /\ th[t].pc \notin ReadOnlyPcs
           \/ th[t].pc \in TestedPcs /\ th[u].pc \in AssignPcs
           \/ th[t].pc = "init_lock" /\ u \in InRegistry

\* the program is running: nothing undefined has happened so far
Runs == ~ub /\ ~lockUb /\ ~Racing

\* the racing accesses are made: from here nothing is defined
DataRace ==
    /\ ~ub /\ ~lockUb
    /\ Racing
    /\ SetReg([Reg EXCEPT !.ub = TRUE])
    /\ UNCHANGED <<noMalloc, last, calls, isrVars, lockVars>>

\* thread record r moved to place pc; at "idle" the call has returned, and
\* the record keeps only "held": how many more times the call has locked
\* than unlocked
GoTo(r, pc) ==
    IF pc = "idle" THEN [Idle EXCEPT !.held = r.held]
    ELSE [r EXCEPT !.pc = pc]

RegSame ==
    UNCHANGED <<ezcb_table, ezcb_buckets, ezcb_count, nodes, ezcb_free_list, ub, heap,
                regOrder>>

\* a thread enters a public function
ThrCall(t, op, trigger) ==
    /\ Runs
    /\ th[t].pc = "idle"
    /\ op = "register" => (noMalloc \/ ezcb_count < MaxLiveL)
    /\ th' = [th EXCEPT ![t] = [Idle EXCEPT !.pc = FirstPc(op), !.op = op,
                                            !.trigger = trigger]]
    /\ UNCHANGED <<regVars, isrVars, ezcb_mtx, lockUb>>

\* ezcb_lock(): mtx_lock blocks while another thread owns the mutex
ezcb_lock(t) ==
    /\ Runs
    /\ th[t].pc \in LockPcs
    /\ IF ~ezcb_mtx.made \/ ezcb_mtx.owner = t
       THEN /\ lockUb' = TRUE
            /\ UNCHANGED <<ezcb_mtx, th>>
       ELSE /\ ezcb_mtx.owner = NoThread
            /\ ezcb_mtx' = [ezcb_mtx EXCEPT !.owner = t]
            /\ th' = [th EXCEPT ![t].pc = AfterLock(@), ![t].held = @ + 1]
            /\ UNCHANGED lockUb
    /\ UNCHANGED <<regVars, isrVars>>

\* ezcb_unlock()
ezcb_unlock(t) ==
    /\ Runs
    /\ th[t].pc \in UnlockPcs
    /\ IF ezcb_mtx.made /\ ezcb_mtx.owner = t
       THEN /\ ezcb_mtx' = [ezcb_mtx EXCEPT !.owner = NoThread]
            /\ UNCHANGED lockUb
       ELSE /\ lockUb' = TRUE
            /\ UNCHANGED ezcb_mtx
    /\ th' = [th EXCEPT ![t] = GoTo([@ EXCEPT !.held = @ - 1], AfterUnlock(@.pc))]
    /\ UNCHANGED <<regVars, isrVars>>

\* ezcb_init: "if (ezcb_table) return;"
InitCheck(t) ==
    /\ Runs
    /\ th[t].pc = "init_check"
    /\ th' = [th EXCEPT ![t] = GoTo(@, IF ezcb_table # NullTable THEN @.back
                                       ELSE "init_mi")]
    /\ UNCHANGED <<regVars, isrVars, ezcb_mtx, lockUb>>

\* ezcb_init: EZCB_MUTEX_INIT
MutexInit(t) ==
    /\ Runs
    /\ th[t].pc = "init_mi"
    /\ IF ezcb_mtx.made
       THEN lockUb' = TRUE /\ UNCHANGED ezcb_mtx
       ELSE ezcb_mtx' = [made |-> TRUE, owner |-> NoThread] /\ UNCHANGED lockUb
    /\ th' = [th EXCEPT ![t].pc = "init_tab"]
    /\ UNCHANGED <<regVars, isrVars>>

\* ezcb_init: EZCB_NO_MALLOC: the table is pointed at the static array and
\* cleared, up to the ezcb_lock(); malloc build: the rest of the function
InitTable(t) ==
    /\ Runs
    /\ th[t].pc = "init_tab"
    /\ IF noMalloc
       THEN /\ SetReg([Reg EXCEPT !.buckets = EZCB_MAX_BUCKETS,
                                  !.table = [i \in 1..EZCB_MAX_BUCKETS |-> <<>>]])
            /\ th' = [th EXCEPT ![t].pc = "init_lock"]
       ELSE /\ SetReg(ezcb_init_body(Reg, noMalloc, TRUE))
            /\ th' = [th EXCEPT ![t] = GoTo(@, @.back)]
    /\ UNCHANGED <<noMalloc, last, calls, isrVars, ezcb_mtx, lockUb>>

\* ezcb_init: EZCB_NO_MALLOC: the loop that builds the free list
InitFree(t) ==
    /\ Runs
    /\ th[t].pc = "init_free"
    /\ SetReg([Reg EXCEPT !.free = InitialFreeList])
    /\ th' = [th EXCEPT ![t].pc = "init_unlock"]
    /\ UNCHANGED <<noMalloc, last, calls, isrVars, ezcb_mtx, lockUb>>

\* ezcb_init: EZCB_NO_MALLOC: "ezcb_count = 0;", after the ezcb_unlock()
InitCount(t) ==
    /\ Runs
    /\ th[t].pc = "init_count"
    /\ SetReg([Reg EXCEPT !.count = 0])
    /\ th' = [th EXCEPT ![t] = GoTo(@, @.back)]
    /\ UNCHANGED <<noMalloc, last, calls, isrVars, ezcb_mtx, lockUb>>

\* ezcb_register_internal: "if (!ezcb_table) ezcb_init();"
RegCheck(t) ==
    /\ Runs
    /\ th[t].pc = "reg_check"
    /\ th' = [th EXCEPT ![t] = IF ezcb_table = NullTable
                               THEN [@ EXCEPT !.pc = "init_check", !.back = "reg_main"]
                               ELSE [@ EXCEPT !.pc = "reg_main"]]
    /\ UNCHANGED <<regVars, isrVars, ezcb_mtx, lockUb>>

\* ezcb_register_internal from the length test on, up to the ezcb_unlock()
\* of the path taken: the one inside ezcb_node_alloc when the free list is
\* empty, else the function's own
RegMain(t) ==
    /\ Runs
    /\ th[t].pc = "reg_main"
    /\ IF ezcb_table = NullTable
       THEN /\ SetReg([Reg EXCEPT !.ub = TRUE])
            /\ UNCHANGED th
       ELSE /\ SetReg(ezcb_register_internal(Reg, noMalloc, th[t].trigger, 1, "f1", "c1",
                                             FALSE, MemOk).st)
            /\ th' = [th EXCEPT ![t].pc =
                        IF /\ noMalloc
                           /\ ~NameTooLong(Len(th[t].trigger))
                           /\ ezcb_free_list = <<>>
                        THEN "alloc_unlock" ELSE "reg_unlock"]
    /\ UNCHANGED <<noMalloc, last, calls, isrVars, ezcb_mtx, lockUb>>

\* the first node, in the order ezcb_unregister walks, that it removes:
\* <<bucket, position>>, or <<>> when there is none
FirstMatch(trigger, fn, ctx) ==
    LET byName == trigger # NullStr
        where == IF byName THEN {BucketOf(trigger, ezcb_buckets)} ELSE 1..ezcb_buckets
        found == {m \in where \X (1..Cardinality(DOMAIN nodes)) :
                    /\ m[2] <= Len(ezcb_table[m[1]])
                    /\ UnregMatches(nodes[ezcb_table[m[1]][m[2]]], byName, trigger,
                                    fn, ctx)}
    IN IF found = {} THEN <<>>
       ELSE CHOOSE m \in found :
              \A o \in found : m[1] < o[1] \/ (m[1] = o[1] /\ m[2] <= o[2])

\* ezcb_unregister: the walk up to the next node to remove and
\* "*cur = n->next;", or to the end
UnrMain(t) ==
    /\ Runs
    /\ th[t].pc = "unr_main"
    /\ LET m == IF ezcb_table = NullTable THEN <<>>
                ELSE FirstMatch(th[t].trigger, NullPtr, NullPtr)
       IN IF m = <<>>
          THEN /\ th' = [th EXCEPT ![t].pc = "unr_unlock"]
               /\ RegSame
          ELSE /\ SetReg([Reg EXCEPT !.table[m[1]] = RemoveAt(@, m[2])])
               /\ th' = [th EXCEPT ![t].node = ezcb_table[m[1]][m[2]],
                                   ![t].pc = IF noMalloc THEN "free_lock"
                                             ELSE "free_push"]
    /\ UNCHANGED <<noMalloc, last, calls, isrVars, ezcb_mtx, lockUb>>

\* ezcb_node_free between its ezcb_lock() and ezcb_unlock() (malloc build:
\* all of it)
FreePush(t) ==
    /\ Runs
    /\ th[t].pc = "free_push"
    /\ SetReg(ezcb_node_free(Reg, noMalloc, th[t].node))
    /\ th' = [th EXCEPT ![t].pc = IF noMalloc THEN "free_unlock" ELSE "unr_cont"]
    /\ UNCHANGED <<noMalloc, last, calls, isrVars, ezcb_mtx, lockUb>>

\* ezcb_unregister: "ezcb_count--; removed++; continue;"
UnrCont(t) ==
    /\ Runs
    /\ th[t].pc = "unr_cont"
    /\ SetReg([Reg EXCEPT !.count = @ - 1])
    /\ th' = [th EXCEPT ![t].pc = "unr_main", ![t].node = 0]
    /\ UNCHANGED <<noMalloc, last, calls, isrVars, ezcb_mtx, lockUb>>

\* ezcb_trigger between its ezcb_lock() and ezcb_unlock(), every callback
\* returning EZCB_CONTINUE
TrgMain(t) ==
    /\ Runs
    /\ th[t].pc = "trg_main"
    /\ SetReg(ezcb_trigger(Reg, noMalloc, th[t].trigger, "d1", 0).st)
    /\ th' = [th EXCEPT ![t].pc = "trg_unlock"]
    /\ UNCHANGED <<noMalloc, last, calls, isrVars, ezcb_mtx, lockUb>>

\* ezcb_deinit: "if (!ezcb_table)"
DeiCheck(t) ==
    /\ Runs
    /\ th[t].pc = "dei_check"
    /\ th' = [th EXCEPT ![t].pc = IF ezcb_table = NullTable THEN "dei_destroy"
                                  ELSE "dei_lock"]
    /\ UNCHANGED <<regVars, isrVars, ezcb_mtx, lockUb>>

\* ezcb_deinit between its ezcb_lock() and ezcb_unlock()
DeiMain(t) ==
    /\ Runs
    /\ th[t].pc = "dei_main"
    /\ SetReg(ezcb_deinit(Reg, noMalloc))
    /\ ezcb_evt_head' = 0
    /\ ezcb_evt_tail' = 0
    /\ th' = [th EXCEPT ![t].pc = "dei_unlock"]
    /\ UNCHANGED <<noMalloc, last, calls, ezcb_evt_queue, isr, drain, enqueued,
                   dispatched, ezcb_mtx, lockUb>>

\* ezcb_deinit: EZCB_MUTEX_DESTROY, on either path
MutexDestroy(t) ==
    /\ Runs
    /\ th[t].pc = "dei_destroy"
    /\ IF ezcb_mtx.made /\ ezcb_mtx.owner = NoThread
       THEN ezcb_mtx' = [ezcb_mtx EXCEPT !.made = FALSE] /\ UNCHANGED lockUb
       ELSE lockUb' = TRUE /\ UNCHANGED ezcb_mtx
    /\ th' = [th EXCEPT ![t] = GoTo(@, "idle")]
    /\ UNCHANGED <<regVars, isrVars>>

(***************************************************************************)
(* SpecLock: NumThreads threads, both builds, every allocation succeeding, *)
(* registrations of "a" only.                                              *)
(***************************************************************************)
ThreadCalls(t) ==
    \/ ThrCall(t, "init", NullStr)
    \/ ThrCall(t, "deinit", NullStr)
    \/ ThrCall(t, "register", name_a)
    \/ ThrCall(t, "unregister", NullStr)
    \/ ThrCall(t, "trigger", name_a)

ThreadSteps(t) ==
    \/ ezcb_lock(t) \/ ezcb_unlock(t)
    \/ InitCheck(t) \/ MutexInit(t) \/ InitTable(t) \/ InitFree(t) \/ InitCount(t)
    \/ RegCheck(t) \/ RegMain(t)
    \/ UnrMain(t) \/ FreePush(t) \/ UnrCont(t)
    \/ TrgMain(t)
    \/ DeiCheck(t) \/ DeiMain(t) \/ MutexDestroy(t)

NextLock == DataRace \/ \E t \in Threads : ThreadCalls(t) \/ ThreadSteps(t)

SpecLock == Init /\ [][NextLock]_vars

(***************************************************************************)
(* Properties                                                              *)
(***************************************************************************)
\* the chain of trigger's bucket, and its nodes that carry the name, in order
ChainOf(trigger) ==
    IF ezcb_table = NullTable THEN <<>> ELSE ezcb_table[BucketOf(trigger, ezcb_buckets)]

MatchSeq(trigger) == SelectSeq(ChainOf(trigger), LAMBDA n : nodes[n].trigger = trigger)

Linked == {Flatten(ezcb_table, 1)[i] : i \in 1..Len(Flatten(ezcb_table, 1))}

TriggerStep == last'.op = "trigger"

\* C3: in every ezcb_trigger call the callbacks invoked are those of the
\* nodes carrying the name, in chain order, up to and including the first one
\* that returns EZCB_STOP: nothing later in the chain is invoked after a stop,
\* and nothing but a stop (no EZCB_CONTINUE, no node of another name) ends the
\* walk before the end of the chain.
C3_StopHaltsWalk ==
    [][TriggerStep =>
        LET M == MatchSeq(last'.trigger)
            L == calls'
        IN /\ Len(L) <= Len(M)
           /\ \A i \in 1..Len(L) : L[i].node = M[i]
           /\ \A i \in 1..Len(L) : L[i].r = EZCB_STOP => i = Len(L)
           /\ (\A i \in 1..Len(L) : L[i].r = EZCB_CONTINUE) => Len(L) = Len(M)]_vars

\* a trigger whose second callback returned stop (the first returned
\* continue), with a node of the same name left uninvoked in the bucket
C3_Witness ==
    /\ last.op = "trigger"
    /\ Len(calls) = 2
    /\ calls[1].r = EZCB_CONTINUE
    /\ calls[2].r = EZCB_STOP
    /\ \E n \in DOMAIN nodes :
         /\ nodes[n].trigger = last.trigger
         /\ \A i \in 1..Len(calls) : calls[i].node # n

\* C4: in every ezcb_trigger call a once node is invoked at most once; one
\* that is invoked was linked before the call and is unlinked and released
\* after it, whatever it returned (so no later call finds it); one that is not
\* invoked stays linked, unchanged.
C4_OnceFiresOnce ==
    [][TriggerStep =>
        LET L == calls'
        IN /\ \A i \in 1..Len(L) :
                /\ L[i].node \in Linked
                /\ \A j \in 1..Len(L) : L[j].node = L[i].node => j = i
                /\ L[i].once =>
                     /\ L[i].node \notin Linked'
                     /\ L[i].node \notin DOMAIN nodes'
                     /\ \A k \in 1..Len(regOrder') : regOrder'[k] # L[i].node
                     /\ noMalloc =>
                          \E k \in 1..Len(ezcb_free_list') :
                              ezcb_free_list'[k] = L[i].node
           /\ \A n \in DOMAIN nodes :
                (nodes[n].once /\ \A i \in 1..Len(L) : L[i].node # n) =>
                     /\ n \in Linked'
                     /\ n \in DOMAIN nodes'
                     /\ nodes'[n] = nodes[n]]_vars

\* a trigger in which a once node returned stop and was removed, while a
\* later once node of the same name was not reached and is still linked
C4_Witness ==
    /\ last.op = "trigger"
    /\ calls # <<>>
    /\ calls[Len(calls)].once
    /\ calls[Len(calls)].r = EZCB_STOP
    /\ calls[Len(calls)].node \notin Linked
    /\ \E n \in Linked : nodes[n].once /\ nodes[n].trigger = last.trigger

\* the registrations that ezcb_unregister(trigger, fn, ctx) is to remove:
\* those whose every field given (not NullStr / NullPtr) is equal
ToRemove(trigger, fn, ctx) ==
    {n \in DOMAIN nodes :
        /\ trigger # NullStr => nodes[n].trigger = trigger
        /\ fn # NullPtr => nodes[n].fn = fn
        /\ ctx # NullPtr => nodes[n].ctx = ctx}

\* C5: from every reachable state, ezcb_unregister(trigger, fn, ctx) unlinks
\* exactly the registrations whose every non-wildcard field matches, leaves
\* the others linked in their chains in the same order with the same fields,
\* and returns the number removed; with three wildcards nothing is left and
\* the prior ezcb_count is returned.
C5_UnregisterExact ==
    \A trigger \in {name_a, name_q, name_empty, NullStr},
       fn \in Fns \cup {NullPtr}, ctx \in Ctxs \cup {NullPtr} :
        LET r == ezcb_unregister(Reg, noMalloc, trigger, fn, ctx)
            R == ToRemove(trigger, fn, ctx)
        IN /\ r.ret = Cardinality(R)
           /\ ~r.st.ub
           /\ DOMAIN r.st.nodes = DOMAIN nodes \ R
           /\ \A n \in DOMAIN r.st.nodes : r.st.nodes[n] = nodes[n]
           /\ Len(r.st.table) = Len(ezcb_table)
           /\ \A i \in 1..Len(ezcb_table) :
                r.st.table[i] = SelectSeq(ezcb_table[i], LAMBDA n : n \notin R)
           /\ r.st.count = ezcb_count - Cardinality(R)
           /\ r.st.buckets = ezcb_buckets
           /\ (trigger = NullStr /\ fn = NullPtr /\ ctx = NullPtr) =>
                /\ r.ret = ezcb_count
                /\ DOMAIN r.st.nodes = {}

\* an unregister that removed two registrations and left a third
C5_Witness ==
    /\ last.op = "unregister"
    /\ last.ret = 2
    /\ ezcb_count = 1
    /\ Linked # {}

\* the registry proper
Registry == <<ezcb_table, ezcb_buckets, ezcb_count, nodes, ezcb_free_list, regOrder>>

RegisterStep == last'.op = "register"

\* C8: EZCB_NO_MALLOC build: ezcb_register with EZCB_MAX_NODES registrations
\* live returns a negative value and changes nothing; with fewer live and a
\* name shorter than EZCB_MAX_TRIGGER_LENGTH it returns 0 and links one node.
C8_PoolExhausted ==
    [][(RegisterStep /\ noMalloc) =>
        /\ ezcb_count = EZCB_MAX_NODES =>
             /\ last'.ret < 0
             /\ Registry' = Registry
        /\ (ezcb_count < EZCB_MAX_NODES
            /\ Len(last'.trigger) < EZCB_MAX_TRIGGER_LENGTH) =>
             /\ last'.ret = 0
             /\ ezcb_count' = ezcb_count + 1
             /\ Cardinality(Linked') = Cardinality(Linked) + 1]_vars

\* a register of a short name refused because every slot is in use
C8_Witness ==
    /\ noMalloc
    /\ last.op = "register"
    /\ Len(last.trigger) < EZCB_MAX_TRIGGER_LENGTH
    /\ last.ret = -1
    /\ ezcb_count = EZCB_MAX_NODES
    /\ ezcb_free_list = <<>>

\* C9: EZCB_NO_MALLOC build: ezcb_register of a name of
\* EZCB_MAX_TRIGGER_LENGTH bytes or more returns a negative value and takes
\* no slot from the free list (which the implicit ezcb_init may just have
\* filled), whether the free list is empty or not; a name of
\* EZCB_MAX_TRIGGER_LENGTH - 1 bytes is accepted when a slot is free.
C9_NameTooLong ==
    [][(RegisterStep /\ noMalloc) =>
        /\ Len(last'.trigger) >= EZCB_MAX_TRIGGER_LENGTH =>
             /\ last'.ret < 0
             /\ ezcb_free_list' =
                  (IF ezcb_table = NullTable THEN InitialFreeList ELSE ezcb_free_list)
             /\ nodes' = nodes
             /\ ezcb_count' = ezcb_count
             /\ regOrder' = regOrder
        /\ (Len(last'.trigger) = EZCB_MAX_TRIGGER_LENGTH - 1
            /\ (ezcb_table = NullTable \/ ezcb_free_list # <<>>)) =>
             /\ last'.ret = 0
             /\ \E n \in DOMAIN nodes' \ DOMAIN nodes :
                    nodes'[n].trigger = last'.trigger]_vars

\* a name exactly EZCB_MAX_TRIGGER_LENGTH long refused while slots are free
C9_Witness ==
    /\ noMalloc
    /\ last.op = "register"
    /\ Len(last.trigger) = EZCB_MAX_TRIGGER_LENGTH
    /\ last.ret = -1
    /\ ezcb_table # NullTable
    /\ ezcb_free_list # <<>>
    /\ ezcb_count > 0

\* node x was registered before node y
RegBefore(x, y) ==
    \E i, j \in 1..Len(regOrder) : i < j /\ regOrder[i] = x /\ regOrder[j] = y

\* C1: every ezcb_trigger call invokes its callbacks in non-increasing
\* priority order, and callbacks of equal priority in registration order.
C1_PriorityOrder ==
    [][TriggerStep =>
        \A i, j \in 1..Len(calls') :
            i < j =>
              /\ calls'[i].priority >= calls'[j].priority
              /\ calls'[i].priority = calls'[j].priority =>
                   RegBefore(calls'[i].node, calls'[j].node)]_vars

\* the callbacks ezcb_trigger(trigger) would invoke from registry state s
DispatchOf(s, trigger, stopAt) == ezcb_trigger(s, noMalloc, trigger, "d1", stopAt).log

\* C2: when a growth is due (count * 4 >= buckets * 3), doubling the table
\* changes, for no name, the sequence of callbacks a trigger invokes.
C2_GrowthRoundTrip ==
    (~noMalloc /\ ~ub /\ ezcb_table # NullTable
     /\ ezcb_count * 4 >= ezcb_buckets * 3) =>
        \A trigger \in {name_a, name_q} :
            \A stopAt \in 0..Cardinality(Matching(trigger)) :
                DispatchOf(ezcb_resize(Reg, ezcb_buckets * 2, TRUE).st, trigger, stopAt)
                    = DispatchOf(Reg, trigger, stopAt)

\* C6: malloc build: an ezcb_register call in which a heap allocation fails
\* returns a negative value and links no node.
C6_AllocFailureReported ==
    [][(RegisterStep /\ ~noMalloc /\ last'.failed # {}) =>
        /\ last'.returned
        /\ last'.ret < 0
        /\ DOMAIN nodes' = DOMAIN nodes
        /\ ezcb_count' = ezcb_count]_vars

\* C7: malloc build: an ezcb_register call on an initialized registry that
\* returns a negative value leaves the bucket count, the chains and the live
\* count as they were.
C7_ErrorLeavesState ==
    [][(RegisterStep /\ ~noMalloc /\ ezcb_table # NullTable
        /\ last'.returned /\ last'.ret < 0) =>
        Registry' = Registry]_vars

\* the slots from the consumer index up to the producer index, oldest first
RECURSIVE RingFrom(_, _)
RingFrom(tail, head) ==
    IF tail = head THEN <<>>
    ELSE <<ezcb_evt_queue[tail]>> \o RingFrom(NextIndex(tail), head)

\* the event ezcb_dispatch has taken off the ring and not yet triggered
InFlight == IF drain.pc = "trigger" THEN <<drain.evt>> ELSE <<>>

\* C10: at every point of every interleaving, the events ezcb_trigger_isr
\* accepted are, in order, those ezcb_dispatch has triggered, then the one it
\* holds, then the ring's slots from tail to head: none lost, duplicated,
\* reordered or overwritten before it was read.
C10_RingFifo ==
    enqueued = dispatched \o InFlight \o RingFrom(ezcb_evt_tail, ezcb_evt_head)

\* the producer is writing a slot while the consumer is reading one, after
\* the ring has wrapped, and everything accepted so far has been triggered
\* or is pending
C10_Witness ==
    /\ isr.pc = "w_data"
    /\ drain.pc = "r_data"
    /\ Len(enqueued) = EZCB_EVENT_QUEUE_SIZE
    /\ Len(dispatched) = EZCB_EVENT_QUEUE_SIZE - 1
    /\ RingFrom(ezcb_evt_tail, ezcb_evt_head) # <<>>
    /\ dispatched[1] # dispatched[2]

\* a step of ezcb_trigger_isr (no other step changes isr)
IsrStep == isr' # isr

\* the events pending in the ring
Pending == RingFrom(ezcb_evt_tail, ezcb_evt_head)

\* C11: a call of ezcb_trigger_isr that finds the ring full (advancing head
\* would make it equal to tail: EZCB_EVENT_QUEUE_SIZE - 1 events pending)
\* returns -1 and has written neither an index nor a slot; a call that finds
\* it not full goes on to write the slot, advance head by one and return 0.
C11_FullRejected ==
    [][IsrStep =>
        /\ isr.pc \in {"idle", "check"} => UNCHANGED ringVars
        /\ isr.pc = "check" =>
             IF (ezcb_evt_head + 1) % EZCB_EVENT_QUEUE_SIZE = ezcb_evt_tail
             THEN /\ Len(Pending) = EZCB_EVENT_QUEUE_SIZE - 1
                  /\ isr'.pc = "idle" /\ isr'.ret = -1
             ELSE /\ Len(Pending) < EZCB_EVENT_QUEUE_SIZE - 1
                  /\ isr'.pc = "w_trigger"
        /\ isr.pc \in {"w_trigger", "w_data"} =>
             /\ isr'.pc # "idle"
             /\ ezcb_evt_head' = ezcb_evt_head /\ ezcb_evt_tail' = ezcb_evt_tail
             /\ \A i \in DOMAIN ezcb_evt_queue :
                  i # ezcb_evt_head => ezcb_evt_queue'[i] = ezcb_evt_queue[i]
        /\ isr.pc = "publish" =>
             /\ isr'.pc = "idle" /\ isr'.ret = 0
             /\ ezcb_evt_head' = (ezcb_evt_head + 1) % EZCB_EVENT_QUEUE_SIZE
             /\ ezcb_evt_tail' = ezcb_evt_tail
             /\ ezcb_evt_queue' = ezcb_evt_queue
             /\ ezcb_evt_queue[ezcb_evt_head] = isr.evt]_vars

\* ezcb_trigger_isr has returned -1 on a full ring that had wrapped around,
\* and the pending events are the last two accepted
C11_Witness ==
    /\ isr.pc = "idle" /\ isr.ret = -1
    /\ Len(Pending) = EZCB_EVENT_QUEUE_SIZE - 1
    /\ ezcb_evt_head < ezcb_evt_tail
    /\ Len(enqueued) > Len(Pending)

\* the registry is uninitialized and holds nothing
Uninitialized ==
    /\ ezcb_table = NullTable
    /\ ezcb_buckets = 0
    /\ ezcb_count = 0
    /\ nodes = <<>>

\* no ezcb_trigger from the current registry invokes a callback
NothingFires ==
    \A trigger \in Names \cup {name_empty} : DispatchOf(Reg, trigger, 0) = <<>>

\* C12: ezcb_deinit leaves the registry uninitialized with no registration
\* and invokes no callback, and an ezcb_deinit right after changes nothing;
\* ezcb_init after it gives an initialized, empty registry, and from an empty
\* registry no ezcb_trigger invokes a callback until an ezcb_register.
C12_Teardown ==
    [][/\ last'.op = "deinit" =>
            /\ Uninitialized'
            /\ calls' = <<>>
            /\ ezcb_deinit(Reg', noMalloc) = Reg'
       /\ (last.op = "deinit" /\ last'.op = "init") =>
            /\ ezcb_table' # NullTable
            /\ ezcb_count' = 0
            /\ Linked' = {}
            /\ NothingFires'
       /\ (Linked = {} /\ last'.op # "register") =>
            /\ Linked' = {}
            /\ calls' = <<>>]_vars

\* EZCB_NO_MALLOC build: an ezcb_deinit that released two or more linked
\* slots (the free list is complete, in another order than ezcb_init's)
C12_Witness ==
    /\ last.op = "deinit"
    /\ Uninitialized
    /\ noMalloc
    /\ Len(ezcb_free_list) = EZCB_MAX_NODES
    /\ ezcb_free_list # InitialFreeList

\* C13: on an uninitialized registry ezcb_unregister returns 0, ezcb_trigger
\* invokes no callback and ezcb_deinit does nothing, and each leaves it
\* uninitialized; ezcb_register (of a name the build accepts) initializes it
\* and links the registration in its bucket; ezcb_init on an initialized
\* registry changes nothing.
C13_UninitializedCalls ==
    [][/\ (ezcb_table = NullTable /\ last'.op = "unregister") =>
            /\ last'.ret = 0
            /\ Registry' = Registry
       /\ (ezcb_table = NullTable /\ last'.op = "trigger") =>
            /\ calls' = <<>>
            /\ Registry' = Registry
       /\ (ezcb_table = NullTable /\ last'.op = "deinit") =>
            /\ Registry' = Registry
            /\ UNCHANGED ringVars
       /\ (ezcb_table = NullTable /\ last'.op = "register"
           /\ (noMalloc => Len(last'.trigger) < EZCB_MAX_TRIGGER_LENGTH)) =>
            /\ last'.ret = 0
            /\ ezcb_table' # NullTable
            /\ ezcb_buckets' = (IF noMalloc THEN EZCB_MAX_BUCKETS ELSE InitialBuckets)
            /\ ezcb_count' = 1
            /\ \E n \in DOMAIN nodes' :
                 /\ nodes'[n].trigger = last'.trigger
                 /\ Flatten(ezcb_table', 1) = <<n>>
                 /\ ezcb_table'[BucketOf(last'.trigger, ezcb_buckets')] = <<n>>
       /\ (ezcb_table # NullTable /\ last'.op = "init") =>
            Registry' = Registry]_vars

\* ezcb_init has been called on a registry that holds two registrations
C13_Witness ==
    /\ last.op = "init"
    /\ ezcb_count = 2
    /\ Cardinality(Linked) = 2

\* C14: malloc build: when ezcb_deinit returns, no heap block the registry
\* allocated is still allocated: no node, no duplicated trigger name, no
\* bucket array.
C14_DeinitFreesAll ==
    [][(last'.op = "deinit" /\ ~noMalloc) => heap' = NoBlocks]_vars

\* C15: no thread calls ezcb_lock while it owns the mutex.
C15_NoRelock ==
    \A t \in Threads : ~(th[t].pc \in LockPcs /\ ezcb_mtx.owner = t)

\* C16: at most one thread at a time is in code that reads or writes
\* registry state, and a call never has unlocked more often than it locked,
\* and has unlocked exactly as often when it returns.
C16_GuardedOnce ==
    /\ Cardinality(InRegistry) <= 1
    /\ \A t \in Threads :
         /\ th[t].held >= 0
         /\ th[t].pc = "idle" => th[t].held = 0

\* C17: malloc build: a register call on an initialized registry doubles the
\* bucket count when, on entry, count * 4 >= buckets * 3 and the new array
\* is allocated, whether or not the node is allocated afterwards, and leaves
\* it alone otherwise; so count * 4 <= buckets * 3 in every initialized
\* state.  EZCB_NO_MALLOC build: no call changes the bucket count of an
\* initialized registry.
C17_GrowthAtLoad ==
    /\ []((~noMalloc /\ ezcb_table # NullTable) =>
            ezcb_count * 4 <= ezcb_buckets * 3)
    /\ [][(RegisterStep /\ ~noMalloc /\ ezcb_table # NullTable) =>
            /\ last'.returned
            /\ ezcb_buckets' =
                 (IF ezcb_count * 4 >= ezcb_buckets * 3 /\ "grow" \notin last'.failed
                  THEN 2 * ezcb_buckets ELSE ezcb_buckets)]_vars
    /\ [][(noMalloc /\ ezcb_table # NullTable) =>
            ezcb_buckets' = ezcb_buckets]_vars

\* a register that found 12 registrations in 16 buckets, doubled the table
\* and then failed to allocate its node
C17_Witness ==
    /\ ~noMalloc
    /\ last.op = "register"
    /\ last.ret = -1
    /\ last.failed = {"node"}
    /\ ezcb_buckets = 2 * InitialBuckets
    /\ ezcb_count * 4 = InitialBuckets * 3

\* C18: a call of ezcb_dispatch returns, the producer enqueueing at most
\* MaxEnq events; and at its return the ring is empty (tail = head) and
\* every event published so far, before or during the call, has been
\* dispatched, by this call if by no earlier one.
C18_DrainTerminates ==
    /\ (drain.pc # "idle") ~> (drain.pc = "idle")
    /\ [][(drain.pc = "test" /\ drain'.pc = "idle") =>
            /\ ezcb_evt_tail' = ezcb_evt_head'
            /\ dispatched' = enqueued']_vars

\* ezcb_dispatch has returned with all MaxEnq events dispatched, more than
\* the ring holds at a time
C18_Witness ==
    /\ drain.pc = "idle"
    /\ Len(enqueued) = MaxEnq
    /\ dispatched = enqueued
    /\ ezcb_evt_tail = ezcb_evt_head
    /\ MaxEnq >= EZCB_EVENT_QUEUE_SIZE

\* the slots of a sequence of slots, and whether none is in it twice
SlotsOf(seq) == {seq[i] : i \in 1..Len(seq)}

NoRepeat(seq) == Cardinality(SlotsOf(seq)) = Len(seq)

\* C19: EZCB_NO_MALLOC build, initialized registry: the length of the free
\* list plus ezcb_count is EZCB_MAX_NODES; no slot is twice on the free list,
\* twice in the chains, or both on the free list and in a chain; and every
\* slot is in one of the two.
C19_SlotsConserved ==
    (noMalloc /\ ezcb_table # NullTable) =>
        /\ Len(ezcb_free_list) + ezcb_count = EZCB_MAX_NODES
        /\ NoRepeat(ezcb_free_list)
        /\ NoRepeat(Flatten(ezcb_table, 1))
        /\ SlotsOf(ezcb_free_list) \cap Linked = {}
        /\ SlotsOf(ezcb_free_list) \cup Linked = 1..EZCB_MAX_NODES

\* a trigger has just released a once registration while two others stay
\* linked, after the pool had been exhausted
C19_Witness ==
    /\ noMalloc
    /\ last.op = "trigger"
    /\ \E i \in 1..Len(calls) : calls[i].once /\ calls[i].node \in SlotsOf(ezcb_free_list)
    /\ ezcb_count = EZCB_MAX_NODES - 1
    /\ Len(ezcb_free_list) = 1

\* C20: after every call, in both builds: ezcb_count is the number of nodes
\* linked in the chains (none when the table is NULL), the table has
\* ezcb_buckets chains, and every node is in the chain of the bucket
\* ezcb_hash(its trigger) % ezcb_buckets.
C20_CountAndPlacement ==
    IF ezcb_table = NullTable THEN ezcb_count = 0
    ELSE /\ ezcb_count = Len(Flatten(ezcb_table, 1))
         /\ Len(ezcb_table) = ezcb_buckets
         /\ \A i \in 1..Len(ezcb_table) :
              \A j \in 1..Len(ezcb_table[i]) :
                  /\ ezcb_table[i][j] \in DOMAIN nodes
                  /\ BucketOf(nodes[ezcb_table[i][j]].trigger, ezcb_buckets) = i

\* a grown table in which "a" and "q", that shared a bucket of 16, are in
\* two buckets, the registration of "q" being a once one
C20_Witness ==
    /\ ~noMalloc
    /\ ezcb_buckets = 2 * InitialBuckets
    /\ ezcb_count > 12
    /\ \E n, m \in Linked :
          /\ nodes[n].trigger = name_a
          /\ nodes[m].trigger = name_q
          /\ nodes[m].once
          /\ BucketOf(name_a, ezcb_buckets) # BucketOf(name_q, ezcb_buckets)
          /\ BucketOf(name_a, InitialBuckets) = BucketOf(name_q, InitialBuckets)


====
